---- MODULE Spec2Model ----
(***************************************************************************)
(* The interview session engine of EnhancedInterviewSession.tsx: the local *)
(* response scorer, the skip-penalty calculus and the session state        *)
(* machine (question issue, recording, evaluation, skip, end and hand-off  *)
(* of the summary through sessionStorage).                                 *)
(*                                                                         *)
(* The component is a React function component.  Every render creates new  *)
(* handler closures over that render's state values.  A click runs the     *)
(* handler of the latest render; a setTimeout callback and the code after  *)
(* an await keep the closure of the render in which the handler started.   *)
(* State setters given an updater function (prev => ...) act on the live   *)
(* state, setters given a value write that value.  The model keeps the     *)
(* live state in the variables and the closure of each pending timer or    *)
(* request in the task's env field.                                        *)
(*                                                                         *)
(* Units: totalScore is kept in fifths of a point (score * 0.20 is         *)
(* score / 5), the behavioural metrics in thousandths.                     *)
(***************************************************************************)
EXTENDS Integers, Sequences, FiniteSets, Bags, TLC

\* ------------------------------------------------------------ constants
MAX_QUESTIONS == 5

\* totalScore is stored times ScoreScale: questionValue = score * 0.20
ScoreScale == 5

\* number of fallback question templates
FallbackCount == 5

\* facial history kept: .slice(-50)
HistoryCap == 50

\* readings the running averages are taken over: .slice(-20)
RecentWindow == 20

\* ---------------------------------------------------------------- bounds
\* analysis messages of one modality ingested during a session with answers
MaxIngested == 2
\* answers merged and questions skipped in a run of the score calculus
MaxUpdates == 6
\* analysis messages of one modality the socket delivers in a session
MaxSamples == 52
\* clicks (skip, record, end) the user makes while a timer or request of an
\* earlier click is still pending; every other click waits for quiescence
MaxOverlaps == 1
\* final speech-recognition results per answer
MaxUtterances == 1
\* audio chunks kept per answer
MaxChunks == 1
\* pending microphone requests
MaxMicPending == 1
\* audio captures running without being referenced by the component
MaxLeaked == 1
\* times the hand-off (storage write and navigation) may run
MaxHandoffs == 2
\* requests (question, evaluation, voice analysis) that fail in a session
MaxFailures == 1

\* ------------------------------------------------------------ inputs
\* The utterances the recogniser may deliver.  A transcript is a sequence
\* of them, joined by single spaces as recognition.onresult joins them.
\*   1: "Yes I did."
\*   2: "In my last project the situation was a checkout page that kept
\*       failing under load, and my task was to fix it before the holiday
\*       sale. I designed a new caching layer and implemented it with two
\*       teammates over three weeks. We tested every release against real
\*       traffic. As a result we increased revenue by 20% and reduced
\*       errors, which the whole team celebrated."
\*   3: "ok"
\*   4: "We shipped the new release."
\*   5: "Our team usually meets every Monday morning to plan the week and
\*       then we split the work between people based on what each one
\*       prefers."
\*   6: "Our team usually meets every Monday morning to plan the week and
\*       then we split the work between QA people based on what each one
\*       prefers."
\*   7: "Honestly I am not sure about that but my guess is that we would
\*       first talk with the customer and then decide what to build next."
\*   8: "The main result of that year was that we increased the number of
\*       paying customers while keeping the same small group of people
\*       who answer the phone and who also write the guides and who train
\*       every new hire and who keep the old system running during the
\*       long busy season before the winter break each year without any
\*       help."
\*   9: "Most weeks we start with a short call where everyone says what
\*       they did and what they plan to do."
\*  10: "Most weeks we start with a short Zoom call where everyone says
\*       what they did and what they plan to do."
\*  11: "In that project the checkout page kept failing whenever many
\*       people came at once. Nobody on the floor knew why it happened so
\*       often. As a result of the new cache we increased weekly orders
\*       and the people who answer the phone had far fewer angry calls
\*       during the long busy season before the winter break while we
\*       kept going strong."
\* Features(u) holds what the scorer's counts and regular expressions find
\* in utterance u.  Every utterance but 3 is a run of whole sentences, so
\* the counts of a transcript are the sums over its utterances and its
\* flags the disjunctions.
\*   words: tokens of more than one character   tokens: split(' ')
\*   chars: length                 sentences: split(/[.!?]+/), length > 2
\*   lower: tokens equal to their lowercase     tech: technical terms
Features(u) ==
  CASE u = 1 ->
       [words |-> 2, tokens |-> 3, chars |-> 10, sentences |-> 1,
        comma |-> FALSE, examples |-> FALSE, quant |-> FALSE, star |-> FALSE,
        tech |-> 0, hedge |-> FALSE, lower |-> 1]
    [] u = 2 ->
       [words |-> 60, tokens |-> 64, chars |-> 359, sentences |-> 4,
        comma |-> TRUE, examples |-> TRUE, quant |-> TRUE, star |-> TRUE,
        tech |-> 3, hedge |-> FALSE, lower |-> 60]
    [] u = 3 ->
       [words |-> 1, tokens |-> 1, chars |-> 2, sentences |-> 0,
        comma |-> FALSE, examples |-> FALSE, quant |-> FALSE, star |-> FALSE,
        tech |-> 0, hedge |-> FALSE, lower |-> 1]
    [] u = 4 ->
       [words |-> 5, tokens |-> 5, chars |-> 27, sentences |-> 1,
        comma |-> FALSE, examples |-> FALSE, quant |-> FALSE, star |-> FALSE,
        tech |-> 0, hedge |-> FALSE, lower |-> 4]
    [] u = 5 ->
       [words |-> 25, tokens |-> 25, chars |-> 134, sentences |-> 1,
        comma |-> FALSE, examples |-> FALSE, quant |-> FALSE, star |-> FALSE,
        tech |-> 0, hedge |-> FALSE, lower |-> 23]
    [] u = 6 ->
       [words |-> 26, tokens |-> 26, chars |-> 137, sentences |-> 1,
        comma |-> FALSE, examples |-> FALSE, quant |-> FALSE, star |-> FALSE,
        tech |-> 0, hedge |-> FALSE, lower |-> 23]
    [] u = 7 ->
       [words |-> 25, tokens |-> 26, chars |-> 128, sentences |-> 1,
        comma |-> FALSE, examples |-> FALSE, quant |-> FALSE, star |-> FALSE,
        tech |-> 0, hedge |-> TRUE, lower |-> 24]
    [] u = 8 ->
       [words |-> 60, tokens |-> 60, chars |-> 322, sentences |-> 1,
        comma |-> FALSE, examples |-> FALSE, quant |-> TRUE, star |-> TRUE,
        tech |-> 0, hedge |-> FALSE, lower |-> 59]
    [] u = 9 ->
       [words |-> 19, tokens |-> 20, chars |-> 97, sentences |-> 1,
        comma |-> FALSE, examples |-> FALSE, quant |-> FALSE, star |-> FALSE,
        tech |-> 0, hedge |-> FALSE, lower |-> 19]
    [] u = 10 ->
       [words |-> 20, tokens |-> 21, chars |-> 102, sentences |-> 1,
        comma |-> FALSE, examples |-> FALSE, quant |-> FALSE, star |-> FALSE,
        tech |-> 0, hedge |-> FALSE, lower |-> 19]
    [] u = 11 ->
       [words |-> 60, tokens |-> 61, chars |-> 330, sentences |-> 3,
        comma |-> FALSE, examples |-> TRUE, quant |-> TRUE, star |-> TRUE,
        tech |-> 0, hedge |-> FALSE, lower |-> 58]

\* the utterances of the session model
UtteranceIds == {1, 2}

\* the transcripts the scorer is studied on: none, one utterance, or two
\* utterances that end in a full stop
ScorerUtterances == 1..11
Punctuated == ScorerUtterances \ {3}
ScorerTranscripts ==
  {<< >>} \cup {<<u>> : u \in ScorerUtterances}
          \cup {<<u, v>> : u \in Punctuated, v \in Punctuated}

\* response times the scorer is studied on: one in each timing band
ScorerTimes == {3, 10, 17, 45, 150, 200}

\* response times in seconds, as measured from questionStartTime
ResponseTimes == {45}

\* scores the remote evaluator returns
RemoteScores == {100}

\* Math.floor(Math.random() * n): the draws the model explores
RandomFloor(n) == {0, n - 1}

\* ------------------------------------------------- transcript features
RECURSIVE SumOver(_, _)
SumOver(a, f) ==
  IF a = << >> THEN 0 ELSE Features(Head(a))[f] + SumOver(Tail(a), f)

AnyOver(a, f) == \E i \in 1..Len(a) : Features(a[i])[f]

\* answer.trim().split(/\s+/).filter(word => word.length > 1).length
wordCount(a) == SumOver(a, "words")
\* trimmedAnswer.length: the utterances joined by single spaces
trimmedLength(a) == IF a = << >> THEN 0 ELSE SumOver(a, "chars") + Len(a) - 1
sentenceCount(a) == SumOver(a, "sentences")
technicalTerms(a) == SumOver(a, "tech")
lowercaseTokens(a) == SumOver(a, "lower")

\* --------------------------------------------------------- local scorer
\* the last n entries of a history: history.slice(-n)
LastN(s, n) == IF Len(s) <= n THEN s ELSE SubSeq(s, Len(s) - n + 1, Len(s))

RECURSIVE SumField(_, _)
SumField(s, f) == IF s = << >> THEN 0 ELSE Head(s)[f] + SumField(Tail(s), f)

\* Math.floor(totalScore * 0.7) in IEEE doubles, for the totals the
\* components can add up to (multiples of 5 up to 110): 90 * 0.7 is
\* 62.99999999999999, every other product floors as the exact one does
FloorTimes07(t) == IF t = 90 THEN 62 ELSE (t * 7) \div 10

\* the length credit turned round: the shorter answer earns more
clarityScoreFalling(wc) ==
  (IF wc < 20 THEN 10 ELSE 0) + (IF wc < 40 THEN 10 ELSE 0) + (IF wc < 60 THEN 10 ELSE 0)

clarityScore(wc) ==
  (IF wc >= 20 THEN 10 ELSE 0) + (IF wc >= 40 THEN 10 ELSE 0) + (IF wc >= 60 THEN 10 ELSE 0)

\* the structure credit without the part for the average sentence length
structureScoreWithoutBand(a) ==
  (IF sentenceCount(a) >= 2 THEN 5 ELSE 0) + (IF AnyOver(a, "comma") THEN 5 ELSE 0)

structureScore(a) ==
  LET wc == wordCount(a)
      sc == sentenceCount(a)
  IN  (IF sc >= 2 THEN 5 ELSE 0)
      \* avgWordsPerSentence is wc / sc when sc > 0, else 0
      + (IF sc > 0 /\ wc >= 8 * sc /\ wc <= 25 * sc THEN 10 ELSE 0)
      + (IF AnyOver(a, "comma") THEN 5 ELSE 0)

timingScore(responseTime) ==
  IF responseTime < 5 THEN 0
  ELSE IF responseTime < 15 THEN 5
  ELSE IF responseTime >= 20 /\ responseTime <= 120 THEN 15
  ELSE IF responseTime <= 180 THEN 10
  ELSE 5

\* averages over the last 10 facial samples, each compared with 0.6
nonverbalScore(facial) ==
  IF Len(facial) > 0
  THEN LET recent == LastN(facial, 10)
           n == Len(recent)
       IN  (IF SumField(recent, "confidence") > 600 * n THEN 5 ELSE 0)
           + (IF SumField(recent, "engagement") > 600 * n THEN 5 ELSE 0)
           + (IF SumField(recent, "eye_contact") > 600 * n THEN 5 ELSE 0)
  ELSE 0

\* the immediate-fail test without the length clause
DegenerateByWordsOnly(a) == wordCount(a) = 0

\* an answer the scorer turns away at once: no countable word, or shorter
\* than three characters
Degenerate(a) == wordCount(a) = 0 \/ trimmedLength(a) < 3

\* the range n of the Math.floor(Math.random() * n) the scorer draws
DrawRange(a) ==
  IF Degenerate(a) THEN 1
  ELSE IF wordCount(a) < 5 THEN 10
  ELSE IF wordCount(a) < 15 THEN 20
  ELSE 1

\* calculateRealisticScore(answer, responseTime, question).score; draw is
\* the value of Math.floor(Math.random() * DrawRange(a))
calculateRealisticScore(a, responseTime, facial, draw) ==
  LET wc == wordCount(a)
      hasSpecificExamples == AnyOver(a, "examples")
      hasQuantifiableResults == AnyOver(a, "quant")
      hasSTARStructure == AnyOver(a, "star")
      base == clarityScore(wc) + structureScore(a) + timingScore(responseTime)
              + nonverbalScore(facial)
      bonus == (IF hasSpecificExamples /\ wc >= 30 THEN 10 ELSE 0)
               + (IF hasQuantifiableResults /\ wc >= 25 THEN 10 ELSE 0)
               + (IF hasSTARStructure /\ wc >= 40 THEN 10 ELSE 0)
               + (IF technicalTerms(a) >= 2 /\ wc >= 35 THEN 5 ELSE 0)
      hedged == IF AnyOver(a, "hedge") THEN FloorTimes07(base + bonus) ELSE base + bonus
      \* more than 80% of the space-separated tokens are their own lowercase
      careless == IF lowercaseTokens(a) * 5 > wc * 4 THEN hedged - 5 ELSE hedged
      cap1 == IF wc < 20 /\ careless > 35 THEN 35 ELSE careless
      cap2 == IF wc < 30 /\ ~hasSpecificExamples /\ cap1 > 45 THEN 45 ELSE cap1
      cap3 == IF ~hasSpecificExamples /\ ~hasQuantifiableResults /\ ~hasSTARStructure
                 /\ cap2 > 50
              THEN 50 ELSE cap2
  IN  IF Degenerate(a) THEN 0
      ELSE IF wc < 5 THEN draw + 5
      ELSE IF wc < 15 THEN draw + 10
      ELSE IF cap3 < 0 THEN 0 ELSE IF cap3 > 100 THEN 100 ELSE cap3

\* the texts pushed where their condition holds, in the order of the pushes
Gather(items) ==
  LET kept == SelectSeq(items, LAMBDA x : x.when)
  IN  [i \in 1..Len(kept) |-> kept[i].text]

\* calculateRealisticScore(...).strengths
Strengths(a, responseTime, facial) ==
  LET wc == wordCount(a)
      pushed == Gather(<<
        [when |-> AnyOver(a, "examples") /\ wc >= 25,
         text |-> "Used specific examples to support your answer"],
        [when |-> AnyOver(a, "quant") /\ wc >= 20,
         text |-> "Included measurable results and impact"],
        [when |-> AnyOver(a, "star") /\ wc >= 30,
         text |-> "Followed a structured approach (STAR method)"],
        [when |-> wc >= 50 /\ clarityScore(wc) >= 20,
         text |-> "Provided comprehensive and detailed response"],
        [when |-> nonverbalScore(facial) >= 10,
         text |-> "Demonstrated confidence through body language"],
        [when |-> technicalTerms(a) >= 2,
         text |-> "Used relevant technical terminology effectively"],
        [when |-> timingScore(responseTime) >= 10,
         text |-> "Took appropriate time to think through the response"] >>)
  IN  IF Degenerate(a) THEN << >>
      ELSE IF wc < 5 THEN <<"Attempted to answer">>
      ELSE IF wc < 15 THEN (IF wc > 8 THEN <<"Provided a basic answer">> ELSE << >>)
      ELSE IF pushed = << >> /\ wc > 0 THEN <<"Made an attempt to answer the question">>
      ELSE pushed

\* calculateRealisticScore(...).improvements; score is the final totalScore
Improvements(a, responseTime, facial, score) ==
  LET wc == wordCount(a)
      pushed == Gather(<<
        [when |-> wc < 20,
         text |-> "Expand your answers with significantly more detail and depth"],
        [when |-> wc >= 20 /\ wc < 40,
         text |-> "Provide more comprehensive explanations with additional context"],
        [when |-> ~AnyOver(a, "examples"),
         text |-> "Include concrete examples from your actual experience"],
        [when |-> ~AnyOver(a, "quant"),
         text |-> "Add measurable outcomes and impact of your work"],
        [when |-> ~AnyOver(a, "star"),
         text |-> "Structure responses using STAR method (Situation, Task, Action, Result)"],
        [when |-> responseTime < 10,
         text |-> "Take more time to think and plan your response"],
        [when |-> responseTime > 150,
         text |-> "Work on being more concise while maintaining detail"],
        [when |-> nonverbalScore(facial) < 5,
         text |-> "Maintain better eye contact and show more engagement"],
        [when |-> technicalTerms(a) = 0 /\ wc > 15,
         text |-> "Include more specific technical terminology relevant to the role"] >>)
  IN  IF Degenerate(a)
      THEN <<"Provide a complete answer to the question",
             "Use specific examples from your experience",
             "Speak clearly and confidently">>
      ELSE IF wc < 5
      THEN <<"Provide much more detail", "Include specific examples",
             "Explain your thought process",
             "Use the STAR method (Situation, Task, Action, Result)">>
      ELSE IF wc < 15
      THEN <<"Expand your answer with more detail", "Include specific examples",
             "Explain the impact of your actions">>
      ELSE IF pushed = << >> /\ score < 85
      THEN <<"Continue practicing to refine your interview responses">>
      ELSE pushed

\* calculateRealisticScore(...).feedback, by the opening of the message
Feedback(a, score) ==
  IF Degenerate(a) THEN "No meaningful response provided"
  ELSE IF wordCount(a) < 5 THEN "Response is too brief"
  ELSE IF wordCount(a) < 15 THEN "Response needs significant development"
  ELSE IF score >= 85 THEN "Excellent response"
  ELSE IF score >= 70 THEN "Good response"
  ELSE IF score >= 50 THEN "Adequate start"
  ELSE IF score >= 25 THEN "Basic attempt"
  ELSE "Insufficient response"

\* the object calculateRealisticScore returns
Evaluation(a, responseTime, facial, draw) ==
  LET score == calculateRealisticScore(a, responseTime, facial, draw)
  IN  [score |-> score,
       feedback |-> Feedback(a, score),
       strengths |-> Strengths(a, responseTime, facial),
       improvements |-> Improvements(a, responseTime, facial, score)]

\* ------------------------------------------------------- skip penalty
\* a penalty table read the wrong way round: the more skipping, the less
calculateSkipPenaltyInverted(totalSkips, totalQuestions) ==
  IF totalSkips * 10 >= 8 * totalQuestions THEN 12
  ELSE IF totalSkips * 10 >= 6 * totalQuestions THEN 20
  ELSE IF totalSkips * 10 >= 4 * totalQuestions THEN 30
  ELSE IF totalSkips * 10 >= 2 * totalQuestions THEN 40
  ELSE 50

\* calculateSkipPenalty: skipRate = totalSkips / totalQuestions
calculateSkipPenalty(totalSkips, totalQuestions) ==
  IF totalSkips * 10 >= 8 * totalQuestions THEN 50
  ELSE IF totalSkips * 10 >= 6 * totalQuestions THEN 40
  ELSE IF totalSkips * 10 >= 4 * totalQuestions THEN 30
  ELSE IF totalSkips * 10 >= 2 * totalQuestions THEN 20
  ELSE 12

Max(x, y) == IF x >= y THEN x ELSE y
Min(x, y) == IF x <= y THEN x ELSE y

\* the updater of skipQuestion with the behavioural metrics floored at 0
\* instead of 0.05
SkipUpdateUnfloored(prev) ==
  LET newQuestionsSkipped == prev.questionsSkipped + 1
      newTotalQuestions == prev.questionsAnswered + newQuestionsSkipped
      skipPenalty == calculateSkipPenalty(newQuestionsSkipped, newTotalQuestions)
      floored == Max(0, prev.totalScore - skipPenalty * ScoreScale)
      capped == IF newQuestionsSkipped * 10 >= 6 * newTotalQuestions
                THEN Min(floored, 15 * ScoreScale)
                ELSE IF newQuestionsSkipped * 10 >= 4 * newTotalQuestions
                THEN Min(floored, 35 * ScoreScale)
                ELSE floored
  IN  [prev EXCEPT !.totalScore = capped,
                   !.questionsSkipped = newQuestionsSkipped,
                   !.confidence = Max(0, prev.confidence - 250),
                   !.engagement = Max(0, prev.engagement - 200),
                   !.communication = Max(0, prev.communication - 150)]

\* a skip that costs the behavioural metrics a tenth each and spares the
\* total
SkipUpdateLenient(prev) ==
  [prev EXCEPT !.questionsSkipped = prev.questionsSkipped + 1,
               !.confidence = Max(50, prev.confidence - 100),
               !.engagement = Max(50, prev.engagement - 100),
               !.communication = Max(50, prev.communication - 100)]

\* the interviewScore the updater of skipQuestion returns
SkipUpdate(prev) ==
  LET newQuestionsSkipped == prev.questionsSkipped + 1
      newTotalQuestions == prev.questionsAnswered + newQuestionsSkipped
      skipPenalty == calculateSkipPenalty(newQuestionsSkipped, newTotalQuestions)
      floored == Max(0, prev.totalScore - skipPenalty * ScoreScale)
      capped == IF newQuestionsSkipped * 10 >= 6 * newTotalQuestions
                THEN Min(floored, 15 * ScoreScale)
                ELSE IF newQuestionsSkipped * 10 >= 4 * newTotalQuestions
                THEN Min(floored, 35 * ScoreScale)
                ELSE floored
  IN  [prev EXCEPT !.totalScore = capped,
                   !.questionsSkipped = newQuestionsSkipped,
                   !.confidence = Max(50, prev.confidence - 250),
                   !.engagement = Max(50, prev.engagement - 200),
                   !.communication = Max(50, prev.communication - 150)]

\* a merge that takes the points of the answer off the total
EvaluationUpdateDeducting(prev, score, responseTime) ==
  [prev EXCEPT !.totalScore = prev.totalScore - score,
               !.questionsAnswered = prev.questionsAnswered + 1,
               !.responseTimeSum = prev.responseTimeSum + responseTime]

\* the interviewScore the updater of updateScoreWithEvaluation returns;
\* averageResponseTime is kept as the sum it is the mean of:
\* (prev.averageResponseTime * prev.questionsAnswered + responseTime)
EvaluationUpdate(prev, score, responseTime) ==
  [prev EXCEPT !.totalScore = prev.totalScore + score,
               !.questionsAnswered = prev.questionsAnswered + 1,
               !.responseTimeSum = prev.responseTimeSum + responseTime]

\* (currentQuestionNumber - 1) % fallbackQuestions.length, with the sign
\* of the dividend as in JavaScript
JsRem(x, n) == IF x >= 0 THEN x % n ELSE 0 - ((0 - x) % n)

\* fallbackQuestions[index]: a template, or undefined outside 0..4
FallbackQuestion(num) ==
  LET index == JsRem(num - 1, FallbackCount)
  IN  IF index >= 0 /\ index < FallbackCount
      THEN [kind |-> "fallback", index |-> index]
      ELSE [kind |-> "undefined", index |-> 0]

\* roleBasedCategories of getQuestionCategory
roleBasedCategories ==
  [r \in {"Software Developer", "Data Scientist", "DevOps Engineer", "Frontend Developer",
          "Backend Developer", "Full Stack Developer", "Product Manager",
          "Project Manager", "Business Analyst", "Marketing Manager", "Sales Manager",
          "UX Designer", "UI Designer", "Graphic Designer", "HR Manager",
          "Customer Success", "Operations Manager", "Financial Analyst", "Accountant",
          "default"} |->
    CASE r \in {"Software Developer", "DevOps Engineer", "Full Stack Developer"} ->
           <<"behavioral", "technical", "problem-solving", "technical", "behavioral">>
      [] r = "Data Scientist" ->
           <<"behavioral", "analytical", "technical", "project-based", "behavioral">>
      [] r = "Frontend Developer" ->
           <<"behavioral", "technical", "design-thinking", "technical", "behavioral">>
      [] r = "Backend Developer" ->
           <<"behavioral", "technical", "system-design", "technical", "behavioral">>
      [] r = "Product Manager" ->
           <<"behavioral", "strategic", "stakeholder-management", "leadership", "behavioral">>
      [] r = "Project Manager" ->
           <<"behavioral", "organizational", "leadership", "conflict-resolution", "behavioral">>
      [] r = "Business Analyst" ->
           <<"behavioral", "analytical", "stakeholder-management", "process-improvement",
             "behavioral">>
      [] r = "Marketing Manager" ->
           <<"behavioral", "strategic", "creative-thinking", "leadership", "behavioral">>
      [] r = "Sales Manager" ->
           <<"behavioral", "relationship-building", "negotiation", "leadership", "behavioral">>
      [] r = "UX Designer" ->
           <<"behavioral", "design-thinking", "user-research", "creative-problem-solving",
             "behavioral">>
      [] r = "UI Designer" ->
           <<"behavioral", "design-thinking", "visual-design", "creative-problem-solving",
             "behavioral">>
      [] r = "Graphic Designer" ->
           <<"behavioral", "creative-thinking", "project-management", "client-communication",
             "behavioral">>
      [] r = "HR Manager" ->
           <<"behavioral", "people-management", "conflict-resolution",
             "policy-implementation", "behavioral">>
      [] r = "Customer Success" ->
           <<"behavioral", "relationship-building", "problem-solving", "communication",
             "behavioral">>
      [] r = "Operations Manager" ->
           <<"behavioral", "process-improvement", "leadership", "problem-solving",
             "behavioral">>
      [] r = "Financial Analyst" ->
           <<"behavioral", "analytical", "attention-to-detail", "strategic-thinking",
             "behavioral">>
      [] r = "Accountant" ->
           <<"behavioral", "analytical", "compliance", "attention-to-detail", "behavioral">>
      [] r = "default" ->
           <<"behavioral", "situational", "problem-solving", "leadership", "behavioral">>]

\* the roles of the role parameter the model explores: those of the
\* table and one it does not hold
JobRoles == DOMAIN roleBasedCategories \cup {"Astronaut"}

\* the role's category sequence: roleBasedCategories[jobRole] || the default
Categories(jobRole) ==
  IF jobRole \in DOMAIN roleBasedCategories
  THEN roleBasedCategories[jobRole] ELSE roleBasedCategories["default"]

\* getQuestionCategory(questionNumber): categories[(questionNumber - 1) %
\* categories.length], undefined where the index is not one of the array
getQuestionCategory(jobRole, questionNumber) ==
  LET categories == Categories(jobRole)
      index == JsRem(questionNumber - 1, Len(categories))
  IN  IF index \in 0..(Len(categories) - 1) THEN categories[index + 1] ELSE "undefined"

\* getDifficulty(questionNumber)
getDifficulty(questionNumber) ==
  IF questionNumber <= 2 THEN "easy"
  ELSE IF questionNumber <= 4 THEN "medium"
  ELSE "hard"

\* requestData of generateNewQuestion, from the question number its
\* render closes over
requestData(jobRole, env) ==
  [job_role |-> jobRole,
   category |-> getQuestionCategory(jobRole, env.currentQuestionNumber),
   difficulty |-> getDifficulty(env.currentQuestionNumber)]

ApiQuestion == [kind |-> "api", index |-> 0]
NoQuestion == [kind |-> "empty", index |-> 0]

\* !currentQuestion is false: a non-empty string
Truthy(q) == q.kind \in {"api", "fallback"}

\* ------------------------------------------------------------- state
VARIABLES
  interviewStarted,       \* useState(false)
  mounted,                \* the component is rendered: FALSE once navigate() left the page
  currentQuestion,        \* useState(''): NoQuestion, ApiQuestion, a fallback or undefined
  currentQuestionNumber,  \* useState(0)
  isRecording,            \* useState(false)
  isRecordingRef,         \* useRef(false)
  currentAnswer,          \* useState(''): the utterances of the transcript
  audioChunks,            \* useState([]): the number of chunks
  mediaRecorder,          \* useState(null): "null", or the state of the recorder object
  leaked,                 \* recorders still recording that the state no longer references
  micPending,             \* getUserMedia calls not yet settled
  recognition,            \* the SpeechRecognition object: "idle", "active", "stopping"
  interviewScore,         \* useState<InterviewScore>
  analysisHistory,        \* useState({facial, voice, responses})
  storage,                \* sessionStorage item interview_data_<sessionId>: << >> or <<summary>>
  handoffs,               \* times endInterview wrote the summary and navigated
  tasks,                  \* bag of pending timers and requests, each with its closure
  genFailures,            \* question requests that failed so far
  evalFailures,           \* evaluation requests that failed so far
  voiceFailures,          \* voice-analysis requests that threw so far
  overlaps,               \* clicks made so far while earlier work was pending
  facialDelivered,        \* facial analysis messages the socket delivered so far
  voiceDelivered,         \* voice analysis messages the socket delivered so far
  trial,                  \* a call of calculateRealisticScore: its arguments and result
  reportMounted,          \* InterviewReport is rendered
  loading,                \* InterviewReport: useState(true)
  error,                  \* InterviewReport: useState(null), or the kind of the message
  report,                 \* InterviewReport: useState(null), or the report received
  evaluationRequest,      \* the POST /generate/comprehensive-evaluation in flight
  alerted                 \* window.alert() has been raised

telemetryVars == <<facialDelivered, voiceDelivered>>
scorerVars == <<trial>>
reportVars == <<reportMounted, loading, error, report, evaluationRequest>>

vars == <<interviewStarted, mounted, currentQuestion, currentQuestionNumber, isRecording,
          isRecordingRef, currentAnswer, audioChunks, mediaRecorder, leaked, micPending,
          recognition, interviewScore, analysisHistory, storage, handoffs, tasks,
          genFailures, evalFailures, voiceFailures, overlaps,
          telemetryVars, scorerVars, reportVars, alerted>>

InitialScore ==
  [totalScore |-> 0, questionsAnswered |-> 0, questionsSkipped |-> 0,
   responseTimeSum |-> 0, confidence |-> 500, engagement |-> 500,
   eyeContact |-> 500, communication |-> 500]

InitialHistory == [facial |-> << >>, voice |-> << >>, responses |-> << >>]

\* the values a handler created in the current render closes over
Closure ==
  [currentQuestionNumber |-> currentQuestionNumber,
   currentQuestion |-> currentQuestion,
   currentAnswer |-> currentAnswer,
   audioChunks |-> audioChunks,
   interviewScore |-> interviewScore,
   analysisHistory |-> analysisHistory]

\* The closure as the continuation of a task reads it.  The request of
\* generateNewQuestion reads only currentQuestionNumber after its await;
\* endInterview and generateNewQuestion read neither the transcript, the
\* chunks nor the question.  Fields never read are left at their defaults.
ClosureOf(kind, env) ==
  IF kind = "question"
  THEN [env EXCEPT !.currentQuestion = NoQuestion, !.currentAnswer = << >>,
                   !.audioChunks = 0, !.interviewScore = InitialScore,
                   !.analysisHistory = InitialHistory]
  ELSE IF kind \in {"questionTimer", "endTimer"}
  THEN [env EXCEPT !.currentQuestion = NoQuestion, !.currentAnswer = << >>,
                   !.audioChunks = 0]
  ELSE env

Task(kind, env, responseTime) ==
  [kind |-> kind, env |-> ClosureOf(kind, env), responseTime |-> responseTime]

\* no call of the scorer is under study
NoTrial == [called |-> FALSE]

NoRequest == [sent |-> FALSE]

\* the state of InterviewReport as constructed
ReportInit ==
  /\ loading = TRUE
  /\ error = "null"
  /\ report = "null"
  /\ evaluationRequest = NoRequest

Init ==
  /\ interviewStarted = FALSE
  /\ mounted = TRUE
  /\ currentQuestion = NoQuestion
  /\ currentQuestionNumber = 0
  /\ isRecording = FALSE
  /\ isRecordingRef = FALSE
  /\ currentAnswer = << >>
  /\ audioChunks = 0
  /\ mediaRecorder = "null"
  /\ leaked = 0
  /\ micPending = 0
  /\ recognition = "idle"
  /\ interviewScore = InitialScore
  /\ analysisHistory = InitialHistory
  /\ storage = << >>
  /\ handoffs = 0
  /\ tasks = EmptyBag
  /\ genFailures = 0
  /\ evalFailures = 0
  /\ voiceFailures = 0
  /\ overlaps = 0
  /\ facialDelivered = 0
  /\ voiceDelivered = 0
  /\ trial = NoTrial
  /\ ReportInit
  /\ reportMounted = FALSE
  /\ alerted = FALSE

\* a state setter: without effect once the component is unmounted
SetState(new, old) == IF mounted THEN new ELSE old

Pending == BagToSet(tasks)
Without(t) == tasks (-) SetToBag({t})
With(bag, t) == bag (+) SetToBag({t})

\* work started by an earlier click is still pending: a timer, a request,
\* the microphone prompt or the recogniser's stop
Busy == tasks # EmptyBag \/ micPending > 0 \/ recognition = "stopping"

\* the service may fail another request
MayFail == genFailures + evalFailures + voiceFailures < MaxFailures

\* a click the user may make now, and what it costs
MayClick == ~Busy \/ overlaps < MaxOverlaps
Clicked == overlaps' = IF Busy THEN overlaps + 1 ELSE overlaps

\* the stop click ends a recording already begun: it overlaps only while the
\* recording has not come up (microphone prompt open, recogniser stopping)
ComingUp == micPending > 0 \/ recognition = "stopping"
MayStop == ~ComingUp \/ overlaps < MaxOverlaps
Stopped == overlaps' = IF ComingUp THEN overlaps + 1 ELSE overlaps

\* the interviewData endInterview stores, from the values it closes over
Summary(env) ==
  [totalQuestions |-> env.currentQuestionNumber,
   questionsAnswered |-> env.interviewScore.questionsAnswered,
   questionsSkipped |-> env.interviewScore.questionsSkipped,
   responseTimeSum |-> env.interviewScore.responseTimeSum,
   totalScore |-> env.interviewScore.totalScore,
   confidence |-> env.interviewScore.confidence,
   engagement |-> env.interviewScore.engagement,
   eyeContact |-> env.interviewScore.eyeContact,
   responses |-> env.analysisHistory.responses,
   facialAnalysisSamples |-> Len(env.analysisHistory.facial),
   voiceAnalysisSamples |-> Len(env.analysisHistory.voice)]

\* endInterview(): stop recognition, store the summary, navigate to the report
endInterview(env) ==
  /\ handoffs < MaxHandoffs
  /\ isRecording' = SetState(FALSE, isRecording)
  /\ recognition' = IF recognition = "active" THEN "stopping" ELSE recognition
  /\ storage' = <<Summary(env)>>
  /\ handoffs' = handoffs + 1
  /\ mounted' = FALSE

endVars == <<isRecording, recognition, storage, handoffs, mounted>>

\* generateNewQuestion(): end at the limit, else count the question and
\* request it; pending is the bag of tasks the caller leaves
generateNewQuestion(env, pending) ==
  IF env.currentQuestionNumber >= MAX_QUESTIONS
  THEN /\ endInterview(env)
       /\ tasks' = pending
       /\ UNCHANGED currentQuestionNumber
  ELSE /\ currentQuestionNumber' = SetState(currentQuestionNumber + 1, currentQuestionNumber)
       /\ tasks' = With(pending, Task("question", env, 0))
       /\ UNCHANGED endVars

\* the record updateScoreWithEvaluation appends (answer: the transcript);
\* number is the question number the appending handler closes over
AnswerRecord(env, score, responseTime) ==
  [question |-> env.currentQuestion, answer |-> "transcript", score |-> score,
   duration |-> responseTime, number |-> env.currentQuestionNumber]

\* a skip record without the sentinel
SkipRecordBlank(env) ==
  [question |-> env.currentQuestion, answer |-> "", score |-> 0,
   duration |-> 0, number |-> env.currentQuestionNumber]

\* the record skipQuestion appends
SkipRecord(env) ==
  [question |-> env.currentQuestion, answer |-> "[SKIPPED]", score |-> 0,
   duration |-> 0, number |-> env.currentQuestionNumber]

AppendResponse(history, record) ==
  [history EXCEPT !.responses = Append(history.responses, record)]

\* the timer proceedToNextStep schedules, from the counts it closes over
NextStepTask(env) ==
  IF env.interviewScore.questionsAnswered + 1 + env.interviewScore.questionsSkipped
       >= MAX_QUESTIONS
  THEN Task("endTimer", env, 0)
  ELSE Task("questionTimer", env, 0)

\* a merge that forgets proceedToNextStep(): the record is appended but no
\* timer is set
MergeWithoutProceed(env, score, responseTime, pending) ==
  /\ analysisHistory' =
       SetState(AppendResponse(analysisHistory, AnswerRecord(env, score, responseTime)),
                analysisHistory)
  /\ interviewScore' =
       SetState(EvaluationUpdate(interviewScore, score, responseTime), interviewScore)
  /\ currentAnswer' = SetState(<< >>, currentAnswer)
  /\ audioChunks' = SetState(0, audioChunks)
  /\ tasks' = pending

\* updateScoreWithEvaluation(evaluation, responseTime); proceedToNextStep()
MergeAndProceed(env, score, responseTime, pending) ==
  /\ analysisHistory' =
       SetState(AppendResponse(analysisHistory, AnswerRecord(env, score, responseTime)),
                analysisHistory)
  /\ interviewScore' =
       SetState(EvaluationUpdate(interviewScore, score, responseTime), interviewScore)
  /\ currentAnswer' = SetState(<< >>, currentAnswer)
  /\ audioChunks' = SetState(0, audioChunks)
  /\ tasks' = With(pending, NextStepTask(env))

\* ----------------------------------------------------------- actions
\* the Start button: startInterview()
StartInterview ==
  /\ mounted /\ ~interviewStarted
  /\ interviewStarted' = TRUE
  /\ generateNewQuestion(Closure, tasks)
  /\ UNCHANGED <<voiceFailures, telemetryVars, scorerVars, reportVars, alerted>>
  /\ UNCHANGED <<currentQuestion, isRecordingRef, currentAnswer, audioChunks, mediaRecorder,
                 leaked, micPending, interviewScore, analysisHistory, genFailures,
                 evalFailures, overlaps>>

\* the response of POST /generate/question arrives with response.ok
QuestionGenerated(t) ==
  /\ t \in Pending /\ t.kind = "question"
  /\ currentQuestion' = SetState(ApiQuestion, currentQuestion)
  /\ tasks' = Without(t)
  /\ UNCHANGED <<voiceFailures, telemetryVars, scorerVars, reportVars, alerted>>
  /\ UNCHANGED <<interviewStarted, mounted, currentQuestionNumber, isRecording,
                 isRecordingRef, currentAnswer, audioChunks, mediaRecorder, leaked,
                 micPending, recognition, interviewScore, analysisHistory, storage,
                 handoffs, genFailures, evalFailures, overlaps>>

\* the request fails (network error or non-2xx): the catch block of
\* generateNewQuestion picks fallbackQuestions[(currentQuestionNumber - 1) % 5]
QuestionFailed(t) ==
  /\ t \in Pending /\ t.kind = "question"
  /\ MayFail
  /\ genFailures' = genFailures + 1
  /\ currentQuestion' =
       SetState(FallbackQuestion(t.env.currentQuestionNumber), currentQuestion)
  /\ tasks' = Without(t)
  /\ UNCHANGED <<voiceFailures, telemetryVars, scorerVars, reportVars, alerted>>
  /\ UNCHANGED <<interviewStarted, mounted, currentQuestionNumber, isRecording,
                 isRecordingRef, currentAnswer, audioChunks, mediaRecorder, leaked,
                 micPending, recognition, interviewScore, analysisHistory, storage,
                 handoffs, evalFailures, overlaps>>

\* the Skip button (disabled while recording or without a question)
SkipQuestion ==
  /\ mounted /\ interviewStarted
  /\ ~isRecording /\ Truthy(currentQuestion)
  /\ MayClick /\ Clicked
  /\ analysisHistory' = AppendResponse(analysisHistory, SkipRecord(Closure))
  /\ interviewScore' = SkipUpdate(interviewScore)
  /\ IF interviewScore.questionsAnswered + interviewScore.questionsSkipped + 1
          >= MAX_QUESTIONS
     THEN /\ tasks' = With(tasks, Task("endTimer", Closure, 0))
          /\ UNCHANGED currentQuestionNumber
          /\ UNCHANGED endVars
     ELSE generateNewQuestion(Closure, tasks)
  /\ UNCHANGED <<voiceFailures, telemetryVars, scorerVars, reportVars, alerted>>
  /\ UNCHANGED <<interviewStarted, currentQuestion, isRecordingRef, currentAnswer,
                 audioChunks, mediaRecorder, leaked, micPending, genFailures,
                 evalFailures>>

\* the record button while not recording: startRecording() up to its await
StartRecording ==
  /\ mounted /\ interviewStarted
  /\ ~isRecording /\ Truthy(currentQuestion)
  /\ MayClick /\ Clicked
  /\ micPending < MaxMicPending
  /\ isRecording' = TRUE
  /\ isRecordingRef' = TRUE
  /\ currentAnswer' = << >>
  /\ audioChunks' = 0
  /\ micPending' = micPending + 1
  /\ UNCHANGED <<voiceFailures, telemetryVars, scorerVars, reportVars, alerted>>
  /\ UNCHANGED <<interviewStarted, mounted, currentQuestion, currentQuestionNumber,
                 mediaRecorder, leaked, recognition, interviewScore, analysisHistory,
                 storage, handoffs, tasks, genFailures, evalFailures>>

\* getUserMedia resolves: a recorder is created and started, recognition
\* is started (start() on a started recogniser throws and is caught)
MicrophoneGranted ==
  /\ micPending > 0
  /\ micPending' = micPending - 1
  /\ (~mounted \/ mediaRecorder = "recording") => leaked < MaxLeaked
  /\ mediaRecorder' = SetState("recording", mediaRecorder)
  /\ leaked' = IF ~mounted \/ mediaRecorder = "recording" THEN leaked + 1 ELSE leaked
  /\ recognition' = IF recognition = "idle" THEN "active" ELSE recognition
  /\ UNCHANGED <<voiceFailures, telemetryVars, scorerVars, reportVars, alerted>>
  /\ UNCHANGED <<interviewStarted, mounted, currentQuestion, currentQuestionNumber,
                 isRecording, isRecordingRef, currentAnswer, audioChunks, interviewScore,
                 analysisHistory, storage, handoffs, tasks, genFailures, evalFailures,
                 overlaps>>

\* a catch block that swallows the rejection: no reset, no alert
MicrophoneDeniedSilently ==
  /\ micPending > 0
  /\ micPending' = micPending - 1
  /\ UNCHANGED <<voiceFailures, telemetryVars, scorerVars, reportVars, alerted>>
  /\ UNCHANGED <<interviewStarted, mounted, currentQuestion, currentQuestionNumber,
                 isRecording, isRecordingRef, currentAnswer, audioChunks, mediaRecorder,
                 leaked, recognition, interviewScore, analysisHistory, storage, handoffs,
                 tasks, genFailures, evalFailures, overlaps>>

\* getUserMedia rejects: the catch block of startRecording, which resets
\* the flag and raises the alert
MicrophoneDenied ==
  /\ micPending > 0
  /\ micPending' = micPending - 1
  /\ isRecording' = SetState(FALSE, isRecording)
  /\ isRecordingRef' = FALSE
  /\ alerted' = TRUE
  /\ UNCHANGED <<voiceFailures, telemetryVars, scorerVars, reportVars>>
  /\ UNCHANGED <<interviewStarted, mounted, currentQuestion, currentQuestionNumber,
                 currentAnswer, audioChunks, mediaRecorder, leaked, recognition,
                 interviewScore, analysisHistory, storage, handoffs, tasks, genFailures,
                 evalFailures, overlaps>>

\* recorder.ondataavailable of a running recorder
AudioChunk ==
  /\ mounted
  /\ mediaRecorder = "recording" \/ leaked > 0
  /\ audioChunks < MaxChunks
  /\ audioChunks' = audioChunks + 1
  /\ UNCHANGED <<voiceFailures, telemetryVars, scorerVars, reportVars, alerted>>
  /\ UNCHANGED <<interviewStarted, mounted, currentQuestion, currentQuestionNumber,
                 isRecording, isRecordingRef, currentAnswer, mediaRecorder, leaked,
                 micPending, recognition, interviewScore, analysisHistory, storage,
                 handoffs, tasks, genFailures, evalFailures, overlaps>>

\* recognition.onresult with a final transcript
SpeechResult(u) ==
  /\ mounted
  /\ recognition = "active"
  /\ Len(currentAnswer) < MaxUtterances
  /\ currentAnswer' = Append(currentAnswer, u)
  /\ UNCHANGED <<voiceFailures, telemetryVars, scorerVars, reportVars, alerted>>
  /\ UNCHANGED <<interviewStarted, mounted, currentQuestion, currentQuestionNumber,
                 isRecording, isRecordingRef, audioChunks, mediaRecorder, leaked,
                 micPending, recognition, interviewScore, analysisHistory, storage,
                 handoffs, tasks, genFailures, evalFailures, overlaps>>

\* recognition.onerror ('no-speech', 'network', 'aborted'): the handler
\* only sets isListening, which is displayed; the recogniser, having
\* reported the error, ends its session and will fire onend
RecognitionError ==
  /\ recognition = "active"
  /\ recognition' = "stopping"
  /\ UNCHANGED <<voiceFailures, telemetryVars, scorerVars, reportVars, alerted>>
  /\ UNCHANGED <<interviewStarted, mounted, currentQuestion, currentQuestionNumber,
                 isRecording, isRecordingRef, currentAnswer, audioChunks, mediaRecorder,
                 leaked, micPending, interviewScore, analysisHistory, storage, handoffs,
                 tasks, genFailures, evalFailures, overlaps>>

\* an onend that never restarts the recogniser
RecognitionEndWithoutRestart ==
  /\ recognition \in {"active", "stopping"}
  /\ recognition' = "idle"
  /\ UNCHANGED <<voiceFailures, telemetryVars, scorerVars, reportVars, alerted>>
  /\ UNCHANGED <<interviewStarted, mounted, currentQuestion, currentQuestionNumber,
                 isRecording, isRecordingRef, currentAnswer, audioChunks, mediaRecorder,
                 leaked, micPending, interviewScore, analysisHistory, storage, handoffs,
                 tasks, genFailures, evalFailures, overlaps>>

\* recognition.onend, after stop() or on the recogniser's own account:
\* restarted while isRecordingRef.current
RecognitionEnd ==
  /\ recognition \in {"active", "stopping"}
  /\ recognition' = IF isRecordingRef THEN "active" ELSE "idle"
  /\ UNCHANGED <<voiceFailures, telemetryVars, scorerVars, reportVars, alerted>>
  /\ UNCHANGED <<interviewStarted, mounted, currentQuestion, currentQuestionNumber,
                 isRecording, isRecordingRef, currentAnswer, audioChunks, mediaRecorder,
                 leaked, micPending, interviewScore, analysisHistory, storage, handoffs,
                 tasks, genFailures, evalFailures, overlaps>>

\* the record button while recording: stopRecording()
StopRecording ==
  /\ mounted /\ interviewStarted
  /\ isRecording /\ Truthy(currentQuestion)
  /\ MayStop /\ Stopped
  /\ isRecording' = FALSE
  /\ isRecordingRef' = FALSE
  /\ recognition' = IF recognition = "active" THEN "stopping" ELSE recognition
  /\ IF mediaRecorder = "recording"
     THEN \* mediaRecorder.stop(); setTimeout(processAudioAndTranscript, 500)
          /\ mediaRecorder' = "inactive"
          /\ tasks' = With(tasks, Task("process", Closure, 0))
          /\ UNCHANGED <<interviewScore, analysisHistory, currentAnswer, audioChunks>>
     ELSE IF currentAnswer # << >>
     THEN \* processTranscriptOnly()
          \E responseTime \in ResponseTimes :
          \E draw \in RandomFloor(DrawRange(currentAnswer)) :
            /\ MergeAndProceed(Closure,
                               calculateRealisticScore(currentAnswer, responseTime,
                                                       analysisHistory.facial, draw),
                               responseTime, tasks)
            /\ UNCHANGED mediaRecorder
     ELSE UNCHANGED <<mediaRecorder, tasks, interviewScore, analysisHistory,
                      currentAnswer, audioChunks>>
  /\ UNCHANGED <<voiceFailures, telemetryVars, scorerVars, reportVars, alerted>>
  /\ UNCHANGED <<interviewStarted, mounted, currentQuestion, currentQuestionNumber,
                 leaked, micPending, storage, handoffs, genFailures, evalFailures>>

\* processAudioAndTranscript without its early return: an empty capture
\* is sent to evaluation like any other
ProcessTimerUnguarded(t) ==
  /\ t \in Pending /\ t.kind = "process"
  /\ \E responseTime \in ResponseTimes :
       tasks' = With(Without(t),
                     Task(IF t.env.audioChunks > 0 THEN "voice" ELSE "evaluate",
                          t.env, responseTime))
  /\ UNCHANGED <<interviewStarted, mounted, currentQuestion, currentQuestionNumber,
                 isRecording, isRecordingRef, currentAnswer, audioChunks, mediaRecorder,
                 leaked, micPending, recognition, interviewScore, analysisHistory,
                 storage, handoffs, genFailures, evalFailures, voiceFailures, overlaps,
                 telemetryVars, scorerVars, reportVars, alerted>>

\* the 500 ms timer of stopRecording fires: processAudioAndTranscript()
\* up to its first await, on the chunks and transcript it closes over
ProcessTimer(t) ==
  /\ t \in Pending /\ t.kind = "process"
  /\ IF t.env.audioChunks = 0 /\ t.env.currentAnswer = << >>
     THEN \* 'No audio or transcript data to process'
          tasks' = Without(t)
     ELSE \E responseTime \in ResponseTimes :
            tasks' = With(Without(t),
                          Task(IF t.env.audioChunks > 0 THEN "voice" ELSE "evaluate",
                               t.env, responseTime))
  /\ UNCHANGED <<voiceFailures, telemetryVars, scorerVars, reportVars, alerted>>
  /\ UNCHANGED <<interviewStarted, mounted, currentQuestion, currentQuestionNumber,
                 isRecording, isRecordingRef, currentAnswer, audioChunks, mediaRecorder,
                 leaked, micPending, recognition, interviewScore, analysisHistory,
                 storage, handoffs, genFailures, evalFailures, overlaps>>

\* POST /analyze/voice responds (ok or not): evaluateResponse() is called
VoiceAnalysed(t) ==
  /\ t \in Pending /\ t.kind = "voice"
  /\ tasks' = With(Without(t), Task("evaluate", t.env, t.responseTime))
  /\ UNCHANGED <<voiceFailures, telemetryVars, scorerVars, reportVars, alerted>>
  /\ UNCHANGED <<interviewStarted, mounted, currentQuestion, currentQuestionNumber,
                 isRecording, isRecordingRef, currentAnswer, audioChunks, mediaRecorder,
                 leaked, micPending, recognition, interviewScore, analysisHistory,
                 storage, handoffs, genFailures, evalFailures, overlaps>>

\* the voice request throws: the catch block runs processTranscriptOnly()
VoiceFailed(t) ==
  /\ t \in Pending /\ t.kind = "voice"
  /\ MayFail
  /\ voiceFailures' = voiceFailures + 1
  /\ \E responseTime \in ResponseTimes :
     \E draw \in RandomFloor(DrawRange(t.env.currentAnswer)) :
       MergeAndProceed(t.env,
                       calculateRealisticScore(t.env.currentAnswer, responseTime,
                                               t.env.analysisHistory.facial, draw),
                       responseTime, Without(t))
  /\ UNCHANGED <<evalFailures, telemetryVars, scorerVars, reportVars, alerted>>
  /\ UNCHANGED <<interviewStarted, mounted, currentQuestion, currentQuestionNumber,
                 isRecording, isRecordingRef, mediaRecorder, leaked, micPending,
                 recognition, storage, handoffs, genFailures, overlaps>>

\* POST /evaluate/comprehensive responds ok with a score
Evaluated(t, score) ==
  /\ t \in Pending /\ t.kind = "evaluate"
  /\ MergeAndProceed(t.env, score, t.responseTime, Without(t))
  /\ UNCHANGED <<voiceFailures, telemetryVars, scorerVars, reportVars, alerted>>
  /\ UNCHANGED <<interviewStarted, mounted, currentQuestion, currentQuestionNumber,
                 isRecording, isRecordingRef, mediaRecorder, leaked, micPending,
                 recognition, storage, handoffs, genFailures, evalFailures, overlaps>>

\* the evaluation request fails: evaluateResponse returns the local score
EvaluationFailed(t) ==
  /\ t \in Pending /\ t.kind = "evaluate"
  /\ MayFail
  /\ evalFailures' = evalFailures + 1
  /\ \E draw \in RandomFloor(DrawRange(t.env.currentAnswer)) :
       MergeAndProceed(t.env,
                       calculateRealisticScore(t.env.currentAnswer, t.responseTime,
                                               t.env.analysisHistory.facial, draw),
                       t.responseTime, Without(t))
  /\ UNCHANGED <<voiceFailures, telemetryVars, scorerVars, reportVars, alerted>>
  /\ UNCHANGED <<interviewStarted, mounted, currentQuestion, currentQuestionNumber,
                 isRecording, isRecordingRef, mediaRecorder, leaked, micPending,
                 recognition, storage, handoffs, genFailures, overlaps>>

\* the 2 s timer of proceedToNextStep fires: generateNewQuestion()
QuestionTimer(t) ==
  /\ t \in Pending /\ t.kind = "questionTimer"
  /\ generateNewQuestion(t.env, Without(t))
  /\ UNCHANGED <<voiceFailures, telemetryVars, scorerVars, reportVars, alerted>>
  /\ UNCHANGED <<interviewStarted, currentQuestion, isRecordingRef, currentAnswer,
                 audioChunks, mediaRecorder, leaked, micPending, interviewScore,
                 analysisHistory, genFailures, evalFailures, overlaps>>

\* the timer of proceedToNextStep (2 s) or skipQuestion (1 s) fires: endInterview()
EndTimer(t) ==
  /\ t \in Pending /\ t.kind = "endTimer"
  /\ endInterview(t.env)
  /\ tasks' = Without(t)
  /\ UNCHANGED <<voiceFailures, telemetryVars, scorerVars, reportVars, alerted>>
  /\ UNCHANGED <<interviewStarted, currentQuestion, currentQuestionNumber, isRecordingRef,
                 currentAnswer, audioChunks, mediaRecorder, leaked, micPending,
                 interviewScore, analysisHistory, genFailures, evalFailures, overlaps>>

\* the End Interview button
EndInterview ==
  /\ mounted /\ interviewStarted
  /\ MayClick /\ Clicked
  /\ endInterview(Closure)
  /\ UNCHANGED <<voiceFailures, telemetryVars, scorerVars, reportVars, alerted>>
  /\ UNCHANGED <<interviewStarted, currentQuestion, currentQuestionNumber, isRecordingRef,
                 currentAnswer, audioChunks, mediaRecorder, leaked, micPending,
                 interviewScore, analysisHistory, tasks, genFailures, evalFailures>>

\* ---------------------------------------------------------- telemetry
\* the n-th facial analysis message; Date.now() is rendered by the arrival
\* number, the readings (thousandths) vary with it
FacialSample(n) ==
  [timestamp |-> n, confidence |-> 300 + 100 * (n % 5),
   engagement |-> 400 + 150 * (n % 3), eye_contact |-> 200 + 200 * (n % 4)]

\* the mean cut to three decimals instead of rounded
AverageTruncated(s, f) == SumField(s, f) \div Len(s)

\* Number((sum / n).toFixed(3)) of readings given in thousandths
Average(s, f) == (2 * SumField(s, f) + Len(s)) \div (2 * Len(s))

\* webSocketService.setOnFacialAnalysis handler: append and keep the last
\* HistoryCap entries, then set the running averages of the last RecentWindow
FacialAnalysis ==
  /\ interviewStarted /\ mounted
  /\ facialDelivered < MaxSamples
  /\ facialDelivered' = facialDelivered + 1
  /\ LET facial == LastN(Append(analysisHistory.facial, FacialSample(facialDelivered + 1)),
                         HistoryCap)
         recentFacial == LastN(facial, RecentWindow)
     IN  /\ analysisHistory' = [analysisHistory EXCEPT !.facial = facial]
         /\ interviewScore' =
              [interviewScore EXCEPT !.confidence = Average(recentFacial, "confidence"),
                                     !.engagement = Average(recentFacial, "engagement"),
                                     !.eyeContact = Average(recentFacial, "eye_contact")]
  /\ UNCHANGED <<interviewStarted, mounted, currentQuestion, currentQuestionNumber,
                 isRecording, isRecordingRef, currentAnswer, audioChunks, mediaRecorder,
                 leaked, micPending, recognition, storage, handoffs, tasks, genFailures,
                 evalFailures, voiceFailures, overlaps, voiceDelivered, scorerVars,
                 reportVars, alerted>>

\* webSocketService.setOnVoiceAnalysis handler: setVoiceAnalysisData(data),
\* a value only displayed; analysisHistory is not touched
VoiceAnalysis ==
  /\ interviewStarted /\ mounted
  /\ voiceDelivered < MaxSamples
  /\ voiceDelivered' = voiceDelivered + 1
  /\ UNCHANGED <<interviewStarted, mounted, currentQuestion, currentQuestionNumber,
                 isRecording, isRecordingRef, currentAnswer, audioChunks, mediaRecorder,
                 leaked, micPending, recognition, interviewScore, analysisHistory, storage,
                 handoffs, tasks, genFailures, evalFailures, voiceFailures, overlaps,
                 facialDelivered, scorerVars, reportVars, alerted>>

\* the telemetry stream of a started session, taken by itself
TelemetryNext ==
  \/ StartInterview
  \/ \E t \in Pending : QuestionGenerated(t)
  \/ FacialAnalysis
  \/ VoiceAnalysis

TelemetrySpec == Init /\ [][TelemetryNext]_vars

\* ------------------------------------------------------- local scorer
\* the call of calculateRealisticScore under study: on a transcript, with
\* the facial history of the moment
Score(a, responseTime, draw) ==
  /\ ~trial.called
  /\ trial' = [called |-> TRUE, answer |-> a, responseTime |-> responseTime,
               facial |-> analysisHistory.facial,
               evaluation |-> Evaluation(a, responseTime, analysisHistory.facial, draw)]
  /\ UNCHANGED <<interviewStarted, mounted, currentQuestion, currentQuestionNumber,
                 isRecording, isRecordingRef, currentAnswer, audioChunks, mediaRecorder,
                 leaked, micPending, recognition, interviewScore, analysisHistory, storage,
                 handoffs, tasks, genFailures, evalFailures, voiceFailures, overlaps,
                 telemetryVars, reportVars, alerted>>

\* the scorer called on any transcript at any moment of the facial stream
ScorerNext ==
  \/ StartInterview
  \/ ~trial.called /\ FacialAnalysis
  \/ \E a \in ScorerTranscripts : \E responseTime \in ScorerTimes :
     \E draw \in RandomFloor(DrawRange(a)) : Score(a, responseTime, draw)

ScorerSpec == Init /\ [][ScorerNext]_vars

\* ------------------------------------------------------ score calculus
\* scores an evaluation may carry into the merge
MergedScores == {0, 55, 100}

\* the setInterviewScore updater of skipQuestion, taken by itself
ApplySkip ==
  /\ interviewScore.questionsAnswered + interviewScore.questionsSkipped < MaxUpdates
  /\ interviewScore' = SkipUpdate(interviewScore)
  /\ UNCHANGED <<interviewStarted, mounted, currentQuestion, currentQuestionNumber,
                 isRecording, isRecordingRef, currentAnswer, audioChunks, mediaRecorder,
                 leaked, micPending, recognition, analysisHistory, storage, handoffs,
                 tasks, genFailures, evalFailures, voiceFailures, overlaps,
                 telemetryVars, scorerVars, reportVars, alerted>>

\* the setInterviewScore updater of updateScoreWithEvaluation, taken by itself
ApplyEvaluation(score, responseTime) ==
  /\ interviewScore.questionsAnswered + interviewScore.questionsSkipped < MaxUpdates
  /\ interviewScore' = EvaluationUpdate(interviewScore, score, responseTime)
  /\ UNCHANGED <<interviewStarted, mounted, currentQuestion, currentQuestionNumber,
                 isRecording, isRecordingRef, currentAnswer, audioChunks, mediaRecorder,
                 leaked, micPending, recognition, analysisHistory, storage, handoffs,
                 tasks, genFailures, evalFailures, voiceFailures, overlaps,
                 telemetryVars, scorerVars, reportVars, alerted>>

CalculusNext ==
  \/ ApplySkip
  \/ \E score \in MergedScores : \E responseTime \in ResponseTimes :
       ApplyEvaluation(score, responseTime)

\* every order in which answers are merged and questions skipped
CalculusSpec == Init /\ [][CalculusNext]_vars

\* ------------------------------------------------------- report page
\* the body of the evaluation request, from the stored interviewData d:
\* x || y takes y where x is 0; the defaults of the counts, the score and
\* the record list are the falsy values themselves.  averageResponseTime
\* is 0 exactly when no response time was summed.
evaluationData(d) ==
  [totalQuestions |-> IF d.totalQuestions = 0 THEN 5 ELSE d.totalQuestions,
   questionsAnswered |-> d.questionsAnswered,
   questionsSkipped |-> d.questionsSkipped,
   averageResponseTimeDefaulted |-> d.responseTimeSum = 0,
   responseTimeSum |-> d.responseTimeSum,
   confidence |-> IF d.confidence = 0 THEN 500 ELSE d.confidence,
   engagement |-> IF d.engagement = 0 THEN 500 ELSE d.engagement,
   eyeContact |-> IF d.eyeContact = 0 THEN 500 ELSE d.eyeContact,
   responses |-> d.responses,
   totalScore |-> d.totalScore]

\* the ways the evaluation request fails, with the message each leaves.
\* AbortSignal.timeout() rejects with a DOMException named TimeoutError,
\* which is an Error but no AbortError, so the timeout takes the general
\* branch of the catch.
ReportFailures ==
  {[kind |-> "status",
    message |-> "AI evaluation failed: AI evaluation service responded with status"],
   [kind |-> "network",
    message |-> "Unable to connect to AI evaluation service. Please check your internet connection and try again."],
   [kind |-> "timeout",
    message |-> "AI evaluation failed: signal timed out"]}

\* setError of generateReport's catch
ErrorText(message) == "Failed to generate interview evaluation: " \o message

\* generateReport(), up to its await: read the stored interview data,
\* fail if there is none, else post it for evaluation
generateReport ==
  IF storage = << >>
  THEN /\ error' = ErrorText("No interview data found. Please complete an interview first.")
       /\ loading' = FALSE
       /\ UNCHANGED <<report, evaluationRequest>>
  ELSE /\ loading' = TRUE
       /\ evaluationRequest' = [sent |-> TRUE, body |-> evaluationData(storage[1])]
       /\ UNCHANGED <<error, report>>

\* the report route is rendered, after endInterview navigated to it or
\* because the user opened it without an interview: the effect on
\* sessionId calls generateReport()
ShowReport ==
  /\ ~reportMounted
  /\ ReportInit
  /\ \/ ~mounted
     \/ mounted /\ ~interviewStarted
  /\ mounted' = FALSE
  /\ reportMounted' = TRUE
  /\ generateReport
  /\ UNCHANGED <<interviewStarted, currentQuestion, currentQuestionNumber, isRecording,
                 isRecordingRef, currentAnswer, audioChunks, mediaRecorder, leaked,
                 micPending, recognition, interviewScore, analysisHistory, storage,
                 handoffs, tasks, genFailures, evalFailures, voiceFailures, overlaps,
                 telemetryVars, scorerVars, alerted>>

sessionVars ==
  <<interviewStarted, mounted, currentQuestion, currentQuestionNumber, isRecording,
    isRecordingRef, currentAnswer, audioChunks, mediaRecorder, leaked, micPending,
    recognition, interviewScore, analysisHistory, storage, handoffs, tasks,
    genFailures, evalFailures, voiceFailures, overlaps, telemetryVars, scorerVars, alerted>>

\* the evaluation service answers 2xx: setReport, then setLoading(false)
ReportGenerated ==
  /\ reportMounted /\ evaluationRequest.sent
  /\ report' = "report"
  /\ loading' = FALSE
  /\ evaluationRequest' = NoRequest
  /\ UNCHANGED <<error, reportMounted, sessionVars>>

\* the evaluation request fails: setError, then setLoading(false)
ReportFailed(failure) ==
  /\ reportMounted /\ evaluationRequest.sent
  /\ error' = ErrorText(failure.message)
  /\ loading' = FALSE
  /\ evaluationRequest' = NoRequest
  /\ UNCHANGED <<report, reportMounted, sessionVars>>

\* the Return Home button, of the error screen and of the report
ReturnHome ==
  /\ reportMounted /\ ~loading
  /\ reportMounted' = FALSE
  /\ UNCHANGED <<loading, error, report, evaluationRequest, sessionVars>>

\* the Dashboard button of the report
OpenDashboard ==
  /\ reportMounted /\ ~loading /\ error = "null" /\ report # "null"
  /\ reportMounted' = FALSE
  /\ UNCHANGED <<loading, error, report, evaluationRequest, sessionVars>>

\* a session in which questions are skipped or the interview is ended,
\* followed by the report page
ReportNext ==
  \/ StartInterview
  \/ \E t \in Pending : QuestionGenerated(t)
  \/ \E t \in Pending : QuestionFailed(t)
  \/ SkipQuestion
  \/ \E t \in Pending : EndTimer(t)
  \/ EndInterview
  \/ ShowReport
  \/ ReportGenerated
  \/ \E failure \in ReportFailures : ReportFailed(failure)
  \/ ReturnHome
  \/ OpenDashboard

ReportSpec == Init /\ [][ReportNext]_vars

Next ==
  \/ StartInterview
  \/ \E t \in Pending : QuestionGenerated(t)
  \/ \E t \in Pending : QuestionFailed(t)
  \/ SkipQuestion
  \/ StartRecording
  \/ MicrophoneGranted
  \/ MicrophoneDenied
  \/ AudioChunk
  \/ \E u \in UtteranceIds : SpeechResult(u)
  \/ RecognitionError
  \/ RecognitionEnd
  \/ StopRecording
  \/ \E t \in Pending : ProcessTimer(t)
  \/ \E t \in Pending : VoiceAnalysed(t)
  \/ \E t \in Pending : VoiceFailed(t)
  \/ \E t \in Pending : \E score \in RemoteScores : Evaluated(t, score)
  \/ \E t \in Pending : EvaluationFailed(t)
  \/ \E t \in Pending : QuestionTimer(t)
  \/ \E t \in Pending : EndTimer(t)
  \/ EndInterview

Spec == Init /\ [][Next]_vars

\* the session of a user who clicks only when no earlier work is pending,
\* with the analysis messages the socket delivers meanwhile
LedgerNext ==
  \/ Next /\ overlaps' = overlaps
  \/ facialDelivered < MaxIngested /\ FacialAnalysis
  \/ voiceDelivered < MaxIngested /\ VoiceAnalysis

LedgerSpec == Init /\ [][LedgerNext]_vars

\* timers fire and requests complete: the browser's event loop runs every
\* scheduled callback; what the user clicks, and when, is left open
Completion ==
  \E t \in Pending :
    \/ QuestionGenerated(t) \/ QuestionFailed(t)
    \/ ProcessTimer(t)
    \/ VoiceAnalysed(t) \/ VoiceFailed(t)
    \/ (\E score \in RemoteScores : Evaluated(t, score)) \/ EvaluationFailed(t)
    \/ QuestionTimer(t)
    \/ EndTimer(t)

FairSpec == Spec /\ WF_vars(Completion)

\* ------------------------------------------------------------ claims
Responses == analysisHistory.responses

\* task t leaves the bag in this step: its timer fired or its request completed
Removed(t) == CopiesIn(t, tasks') < CopiesIn(t, tasks)
\* one more copy of task t is pending after this step
Added(t) == CopiesIn(t, tasks') = CopiesIn(t, tasks) + 1

Recorded == interviewScore.questionsAnswered + interviewScore.questionsSkipped

\* C1: in every reachable state the list of question records holds at most
\* MAX_QUESTIONS entries.
C1_AtMostMaxRecords == Len(Responses) <= MAX_QUESTIONS

\* C2: no question number has more than one record (answer or skip).
C2_OneRecordPerQuestion ==
  \A i, j \in 1..Len(Responses) :
    i # j => Responses[i].number # Responses[j].number

\* C3: an evaluation that completes when the session is no longer on the
\* question it was requested for is discarded: the score and the records
\* stay as they are.
C3_StaleResultDiscarded ==
  [][\A t \in Pending :
       (t.kind = "evaluate" /\ Removed(t)
          /\ t.env.currentQuestionNumber # currentQuestionNumber)
       => (interviewScore' = interviewScore /\ analysisHistory' = analysisHistory)]_vars

\* C4: whenever a question request fails, the current question becomes one
\* of the five fallback templates (so the record and skip buttons are enabled).
C4_FallbackOnFailure ==
  [][(genFailures' = genFailures + 1 /\ mounted)
       => (currentQuestion'.kind = "fallback" /\ Truthy(currentQuestion'))]_vars

\* C5: when the end timer scheduled at the question limit fires, the stored
\* summary holds every question record and the counts and total score of
\* the InterviewScore as they are after the last answer or skip.
C5_SummaryComplete ==
  [][((\E t \in Pending : t.kind = "endTimer" /\ Removed(t)) /\ mounted)
       => /\ storage' # << >>
          /\ storage'[1].responses = Responses
          /\ storage'[1].questionsAnswered = interviewScore.questionsAnswered
          /\ storage'[1].questionsSkipped = interviewScore.questionsSkipped
          /\ storage'[1].totalScore = interviewScore.totalScore]_vars

\* C6: in every reachable state 0 <= totalScore <= 100 (every merged
\* evaluation score is in 0..100: RemoteScores and the local scorer).
C6_TotalScoreInRange ==
  /\ interviewScore.totalScore >= 0
  /\ interviewScore.totalScore <= 100 * ScoreScale

\* C7: the records are in strictly increasing question-number order.
C7_StrictlyIncreasing ==
  \A i, j \in 1..Len(Responses) :
    i < j => Responses[i].number < Responses[j].number

\* C8: once answered + skipped has reached MAX_QUESTIONS the session
\* eventually ends (summary stored, report opened) with no further click,
\* given that timers fire and requests complete.
C8_LimitLeadsToEnd == (Recorded >= MAX_QUESTIONS /\ mounted) ~> ~mounted

\* the score of the local heuristic for a transcript, by its bands: no
\* countable word 0, fewer than 5 words 5..14, fewer than 15 words 10..29
InLocalBand(a, score) ==
  IF wordCount(a) = 0 THEN score = 0
  ELSE IF wordCount(a) < 5 THEN score \in 5..14
  ELSE IF wordCount(a) < 15 THEN score \in 10..29
  ELSE score \in 0..100

\* the advance step of an answer whose handler saw the counts of env:
\* the end timer at the limit, else the timer of the next question
AdvanceScheduled(env) ==
  IF env.interviewScore.questionsAnswered + env.interviewScore.questionsSkipped + 1
       >= MAX_QUESTIONS
  THEN \E t \in Pending' : t.kind = "endTimer" /\ Added(t)
                           /\ t.env.interviewScore = env.interviewScore
  ELSE \E t \in Pending' : t.kind = "questionTimer" /\ Added(t)
                           /\ t.env.currentQuestionNumber = env.currentQuestionNumber

\* one record for the answer of env is appended with this score, and the
\* score is merged
OneRecordAppended(env, lo, hi) ==
  /\ Len(analysisHistory'.responses) = Len(Responses) + 1
  /\ SubSeq(analysisHistory'.responses, 1, Len(Responses)) = Responses
  /\ LET record == analysisHistory'.responses[Len(Responses) + 1]
     IN  /\ record.score \in lo..hi
         /\ record.answer = "transcript"
         /\ record.number = env.currentQuestionNumber
         /\ interviewScore'.totalScore = interviewScore.totalScore + record.score
         /\ interviewScore'.questionsAnswered = interviewScore.questionsAnswered + 1

\* C9: when the evaluation request fails, the local heuristic score is
\* merged, exactly one record is appended and the advance step (next
\* question, or end at the limit) is scheduled as after a remote score.
C9_EvaluationFallback ==
  [][\A t \in Pending :
       (t.kind = "evaluate" /\ Removed(t) /\ evalFailures' = evalFailures + 1 /\ mounted)
       => /\ OneRecordAppended(t.env, 0, 100)
          /\ InLocalBand(t.env.currentAnswer,
                         analysisHistory'.responses[Len(Responses) + 1].score)
          /\ AdvanceScheduled(t.env)
          /\ mounted']_vars

\* C9 witness: the evaluation of the fifth answer failed, its local score
\* is the last record and the end timer is pending.
C9_Witness ==
  /\ evalFailures = 1 /\ mounted
  /\ Recorded = MAX_QUESTIONS
  /\ Len(Responses) = MAX_QUESTIONS
  /\ Responses[Len(Responses)].answer = "transcript"
  /\ Responses[Len(Responses)].score \in 0..14
  /\ \E t \in Pending : t.kind = "endTimer"

\* the stop click on a running audio capture
StopOfCapture ==
  /\ isRecording /\ ~isRecording' /\ mounted' /\ micPending' = micPending
  /\ mediaRecorder = "recording"

HasData(env) == env.audioChunks > 0 \/ env.currentAnswer # << >>

\* an evaluation stage completes while the component is mounted: a voice
\* analysis that returns hands over to the evaluation, every other
\* completion merges a score in 0..100, appends one record and schedules
\* the advance step
CompletionMerges ==
  \A t \in Pending :
    (t.kind \in {"voice", "evaluate"} /\ Removed(t) /\ mounted)
    => IF t.kind = "voice" /\ voiceFailures' = voiceFailures
       THEN /\ \E e \in Pending' : e.kind = "evaluate" /\ e.env = t.env /\ Added(e)
            /\ analysisHistory' = analysisHistory
       ELSE OneRecordAppended(t.env, 0, 100) /\ AdvanceScheduled(t.env)

\* C10 as claimed: every stop of a running capture, whatever was captured,
\* is processed: the timer is set, the processing goes on to evaluation and
\* the evaluation appends one record with a score in 0..100 and schedules
\* the advance step.
C10_EveryStopYieldsRecord ==
  [][/\ StopOfCapture => Added(Task("process", Closure, 0))
     /\ \A t \in Pending :
          (t.kind = "process" /\ Removed(t))
          => \E e \in Pending' : e.kind \in {"voice", "evaluate"} /\ e.env = t.env /\ Added(e)
     /\ CompletionMerges]_vars

\* C10 amended: a stop of a running capture is processed when its handler
\* saw a transcript or an audio chunk, and then yields one record with a
\* score in 0..100 and the advance step; with neither, nothing is appended
\* and nothing is scheduled.
C10_StopWithDataYieldsRecord ==
  [][/\ StopOfCapture => Added(Task("process", Closure, 0))
     /\ \A t \in Pending :
          (t.kind = "process" /\ Removed(t))
          => IF HasData(t.env)
             THEN \E e \in Pending' :
                    /\ e.kind = (IF t.env.audioChunks > 0 THEN "voice" ELSE "evaluate")
                    /\ e.env = t.env /\ Added(e)
             ELSE /\ tasks' = Without(t)
                  /\ analysisHistory' = analysisHistory
                  /\ interviewScore' = interviewScore
     /\ CompletionMerges]_vars

\* C10 witness: a stop with an empty transcript and one audio chunk was
\* evaluated: its record is appended and the next question's timer is set.
C10_Witness ==
  /\ mounted /\ Len(Responses) > 0
  /\ Responses[Len(Responses)].answer = "transcript"
  /\ Responses[Len(Responses)].score = 0
  /\ evalFailures = 1
  /\ \E t \in Pending : t.kind = "questionTimer"

\* the history of a modality holds at most HistoryCap samples and, once more
\* than HistoryCap were delivered, exactly the last HistoryCap in arrival order
WindowOf(history, delivered) ==
  /\ Len(history) <= HistoryCap
  /\ delivered > HistoryCap
       => /\ Len(history) = HistoryCap
          /\ \A i \in 1..HistoryCap : history[i].timestamp = delivered - HistoryCap + i

\* C11: for the facial and for the voice modality the telemetry history
\* never holds more than 50 samples, and after more than 50 samples were
\* delivered it holds exactly the 50 most recent ones in arrival order.
C11_HistoryWindow ==
  /\ WindowOf(analysisHistory.facial, facialDelivered)
  /\ WindowOf(analysisHistory.voice, voiceDelivered)

\* skip-rate s1/n1 is at most skip-rate s2/n2
RateAtMost(s1, n1, s2, n2) == s1 * n2 <= s2 * n1

\* C12: the skip penalty is monotonically non-decreasing in the skip-rate
\* (skips over answered + skipped after the skip), and after a skip whose
\* resulting skip-rate is at least 0.8 the total score is at most 15.
C12_SkipPenalty ==
  [][interviewScore'.questionsSkipped = interviewScore.questionsSkipped + 1
       => LET s == interviewScore'.questionsSkipped
              n == interviewScore'.questionsAnswered + s
          IN  /\ \A n2 \in 1..(MaxUpdates + 4) : \A s2 \in 1..n2 :
                    /\ RateAtMost(s, n, s2, n2)
                         => calculateSkipPenalty(s, n) <= calculateSkipPenalty(s2, n2)
                    /\ RateAtMost(s2, n2, s, n)
                         => calculateSkipPenalty(s2, n2) <= calculateSkipPenalty(s, n)
              /\ 10 * s >= 8 * n => interviewScore'.totalScore <= 15 * ScoreScale]_vars

\* C12 witness: five skips and one answer, the last step a skip: the rate
\* is 5/6, the penalty 50 and the total 0.
C12_Witness ==
  /\ interviewScore.questionsSkipped = 5
  /\ interviewScore.questionsAnswered = 1
  /\ interviewScore.totalScore = 0

AllSkipped == \A i \in 1..Len(Responses) : Responses[i].answer = "[SKIPPED]"

\* C13: after five skips in a row from the start (no answer recorded, no
\* facial telemetry) the state has questionsSkipped = 5, questionsAnswered
\* = 0, totalScore <= 15 and confidence = 0.05.
C13_FiveSkips ==
  (Len(Responses) = MAX_QUESTIONS /\ AllSkipped)
  => /\ interviewScore.questionsSkipped = 5
     /\ interviewScore.questionsAnswered = 0
     /\ interviewScore.totalScore <= 15 * ScoreScale
     /\ interviewScore.confidence = 50

\* C13 witness: the fifth skip record has been appended and the end timer
\* of that skip is pending.
C13_Witness ==
  /\ Len(Responses) = MAX_QUESTIONS /\ AllSkipped
  /\ interviewScore.questionsSkipped = 5
  /\ mounted
  /\ \E t \in Pending : t.kind = "endTimer"

\* the call under study and its parts
Scored == trial.called
Words == wordCount(trial.answer)
Result == trial.evaluation

\* C14 as claimed: word count 0 gives score 0, no strengths and some
\* improvement; word count in [5,15) a score in [10,30); word count in
\* [1,5) a score in [5,15), whatever the draw.
C14_ShortBands ==
  Scored =>
    /\ Words = 0 => /\ Result.score = 0
                    /\ Result.strengths = << >>
                    /\ Result.improvements # << >>
    /\ (Words >= 5 /\ Words < 15) => (Result.score >= 10 /\ Result.score < 30)
    /\ (Words >= 1 /\ Words < 5) => (Result.score >= 5 /\ Result.score < 15)

\* C14 amended: as claimed, but the band [5,15) of one to four words holds
\* for transcripts of at least three characters; a shorter one scores 0
\* with no strengths, like the empty one.
C14_ShortBandsByLength ==
  Scored =>
    /\ (Words = 0 \/ trimmedLength(trial.answer) < 3)
         => /\ Result.score = 0
            /\ Result.strengths = << >>
            /\ Result.improvements # << >>
    /\ (Words >= 5 /\ Words < 15) => (Result.score >= 10 /\ Result.score < 30)
    /\ (Words >= 1 /\ Words < 5 /\ trimmedLength(trial.answer) >= 3)
         => (Result.score >= 5 /\ Result.score < 15)

\* C14 witness: the one-word answer "ok" was scored 0, and the draw was
\* made for no band.
C14_Witness ==
  /\ Scored /\ Words = 1 /\ trimmedLength(trial.answer) = 2
  /\ Result.score = 0

\* two transcripts that differ in nothing the scorer reads but the number
\* of words: sentences, punctuation, keyword flags, technical terms,
\* hedging and lowercase tokens agree
SameRest(a, b) ==
  /\ sentenceCount(a) = sentenceCount(b)
  /\ AnyOver(a, "comma") = AnyOver(b, "comma")
  /\ AnyOver(a, "examples") = AnyOver(b, "examples")
  /\ AnyOver(a, "quant") = AnyOver(b, "quant")
  /\ AnyOver(a, "star") = AnyOver(b, "star")
  /\ AnyOver(a, "hedge") = AnyOver(b, "hedge")
  /\ technicalTerms(a) = technicalTerms(b)
  /\ lowercaseTokens(a) = lowercaseTokens(b)

\* the average words per sentence lies between 8 and 25
InSentenceBand(a) ==
  /\ sentenceCount(a) > 0
  /\ wordCount(a) >= 8 * sentenceCount(a)
  /\ wordCount(a) <= 25 * sentenceCount(a)

\* the score of transcript b under the response time and the facial
\* history of the scored answer
ScoreOf(b) == calculateRealisticScore(b, trial.responseTime, trial.facial, 0)

\* C15 (as stated): for an answer of at least 15 words, any answer with at
\* least as many words and everything else the same (sentence count,
\* punctuation, response time, telemetry, keyword flags, hedging, lowercase
\* words) scores at least as much.
C15_MonotoneInWords ==
  (Scored /\ Words >= 15) =>
    \A b \in ScorerTranscripts :
      (SameRest(trial.answer, b) /\ wordCount(b) >= Words)
        => Result.score <= ScoreOf(b)

\* C15 (amended): the same, for the longer answers that keep the average
\* sentence length between 8 and 25 words when the scored answer has it.
C15_MonotoneInSentenceBand ==
  (Scored /\ Words >= 15) =>
    \A b \in ScorerTranscripts :
      (/\ SameRest(trial.answer, b)
       /\ wordCount(b) >= Words
       /\ InSentenceBand(trial.answer) => InSentenceBand(b))
        => Result.score <= ScoreOf(b)

\* C15 witness: a scored answer of at least 15 words and a longer one,
\* alike in everything else and both within the sentence band, of which
\* the longer scores strictly more.
C15_Witness ==
  /\ Scored
  /\ Words >= 15
  /\ \E b \in ScorerTranscripts :
       /\ SameRest(trial.answer, b)
       /\ wordCount(b) > Words
       /\ InSentenceBand(trial.answer)
       /\ InSentenceBand(b)
       /\ Result.score < ScoreOf(b)

\* a 60-word answer with a STAR keyword and a quantifiable result, given
\* in 45 seconds with no facial sample received
StarAnswer ==
  /\ Scored
  /\ Words = 60
  /\ AnyOver(trial.answer, "star")
  /\ AnyOver(trial.answer, "quant")
  /\ trial.responseTime = 45
  /\ trial.facial = << >>

\* C16 (as stated): every 60-word answer with STAR keywords and a
\* quantifiable result, given in 45 s without facial telemetry, scores at
\* least 85 and gets the 'Excellent response' feedback.
C16_StarAnswerExcellent ==
  StarAnswer => (Result.score >= 85 /\ Result.feedback = "Excellent response")

\* C16 (amended): such an answer scores at least 85 and gets the
\* 'Excellent response' feedback when it also has a specific-example
\* keyword, sentences averaging 8 to 25 words (so at least three of them),
\* and no hedging phrase.
C16_FullStarAnswerExcellent ==
  (/\ StarAnswer
   /\ AnyOver(trial.answer, "examples")
   /\ InSentenceBand(trial.answer)
   /\ ~AnyOver(trial.answer, "hedge"))
    => (Result.score >= 85 /\ Result.feedback = "Excellent response")

\* C16 witness: a scored 60-word STAR answer with an example and a
\* quantifiable result, in well-sized sentences and unhedged, that has
\* neither a comma nor technical terms, the least the amended claim allows.
C16_Witness ==
  /\ StarAnswer
  /\ AnyOver(trial.answer, "examples")
  /\ InSentenceBand(trial.answer)
  /\ ~AnyOver(trial.answer, "hedge")
  /\ ~AnyOver(trial.answer, "comma")
  /\ technicalTerms(trial.answer) = 0
  /\ Result.score = 85

\* C17: every scored transcript with at least one countable word that the
\* scorer does not turn away as degenerate gets at least one strength.
C17_SomeStrength ==
  (Scored /\ Words >= 1 /\ ~Degenerate(trial.answer))
    => Len(Result.strengths) >= 1

\* the error screen is shown
ErrorState == reportMounted /\ ~loading /\ error # "null"

\* C18: whenever report generation has failed and the error screen is
\* shown, some action of the page starts report generation again (the
\* page is loading again for the same stored session).
C18_ErrorRetryable ==
  ErrorState => ENABLED (ReportNext /\ reportMounted' /\ loading' = TRUE)

\* C19: the hand-off (the summary written to storage and the navigation
\* to the report) runs at most once in a session.
C19_HandOffAtMostOnce == handoffs <= 1

\* the session has ended: endInterview has navigated away
Ended == ~mounted

\* a question request is sent in this step
QuestionRequested ==
  \E t \in BagToSet(tasks') :
    t.kind = "question" /\ CopiesIn(t, tasks') > CopiesIn(t, tasks)

\* C20: once the session has ended no step requests a further question,
\* appends a record, or changes the question number or the score.
C20_NothingAfterEnd ==
  [][Ended => (/\ ~QuestionRequested
               /\ Responses' = Responses
               /\ currentQuestionNumber' = currentQuestionNumber
               /\ interviewScore' = interviewScore)]_vars

\* the audio captures running: the recorder the state holds, if it
\* records, and those started that the state does not reference
ActiveCaptures == leaked + (IF mediaRecorder = "recording" THEN 1 ELSE 0)

\* C21: while the interview page is shown, at most one audio capture is
\* active, and one is active only while the recording flag is true.
C21_OneCaptureWhileRecording ==
  mounted => (ActiveCaptures <= 1 /\ (ActiveCaptures > 0 => isRecording))

\* C22: once the session has ended no audio capture is running and the
\* speech recogniser is not listening, whether left running or restarted.
C22_QuietAfterEnd ==
  Ended => (ActiveCaptures = 0 /\ recognition # "active")

\* the difficulty the n-th question is to have
DifficultyOf(n) == IF n <= 2 THEN "easy" ELSE IF n <= 4 THEN "medium" ELSE "hard"

\* C23: the request sent for question n of a session, n the question
\* number the page shows once the request is out, carries the n-th
\* category of the role's sequence and the difficulty of question n.
C23_RequestMatchesQuestion ==
  [][\A t \in BagToSet(tasks') :
       (/\ t.kind = "question"
        /\ CopiesIn(t, tasks') > CopiesIn(t, tasks)
        /\ mounted
        /\ currentQuestionNumber' \in 1..MAX_QUESTIONS)
         => \A jobRole \in JobRoles :
              /\ requestData(jobRole, t.env).category
                   = Categories(jobRole)[currentQuestionNumber']
              /\ requestData(jobRole, t.env).difficulty
                   = DifficultyOf(currentQuestionNumber')]_vars

\* the question, its number, the records and the score stay as they are
SessionKept ==
  /\ currentQuestion' = currentQuestion
  /\ currentQuestionNumber' = currentQuestionNumber
  /\ Responses' = Responses
  /\ interviewScore' = interviewScore

\* C24: neither the start of a recording nor the denial of the microphone
\* changes the question, its number, the records or the score, and the
\* denial leaves the recording flag false and raises an alert.
C24_DenialLeavesSession ==
  [][/\ (StartRecording \/ MicrophoneDenied) => SessionKept
     /\ MicrophoneDenied => (~isRecording' /\ alerted')]_vars

\* C24 witness: the microphone was denied to an attempt made on the
\* interview page, which is back to not recording with no request pending.
C24_Witness ==
  alerted /\ mounted /\ ~isRecording /\ ~isRecordingRef /\ micPending = 0

\* a recording is in progress on the interview page
RecordingInProgress == mounted /\ isRecording

\* C25: during a recording in progress a recognition error leaves the
\* recording flag, the score and the records as they are, and the end of
\* the recogniser's session, after an error or unexpected, restarts the
\* recogniser and leaves the flag true, the score and the records.
C25_RecognitionRecovers ==
  [][RecordingInProgress =>
       /\ RecognitionError =>
            (isRecording' /\ interviewScore' = interviewScore /\ Responses' = Responses)
       /\ RecognitionEnd =>
            (/\ isRecording'
             /\ recognition' = "active"
             /\ interviewScore' = interviewScore
             /\ Responses' = Responses)]_vars

\* C25 witness: a recording in progress whose recogniser is ending without
\* any click having been made on pending work, that is, after an error.
C25_Witness ==
  /\ RecordingInProgress
  /\ recognition = "stopping"
  /\ overlaps = 0
  /\ mediaRecorder = "recording"

\* C26: in every step other than a skip (answer merge, analysis message,
\* recording start and stop, question generation, end) totalScore is at
\* least what it was.
C26_TotalFallsOnlyOnSkip ==
  [][~SkipQuestion => interviewScore'.totalScore >= interviewScore.totalScore]_vars

\* C26 witness: an answer has been merged with points and a facial sample
\* ingested, and the total stands above zero.
C26_Witness ==
  /\ interviewScore.questionsAnswered >= 1
  /\ interviewScore.totalScore > 0
  /\ Len(analysisHistory.facial) >= 1

\* the last record of the list
LastResponse(history) == history.responses[Len(history.responses)]

\* C27: a skip adds one to questionsSkipped, takes 0.25, 0.20 and 0.15
\* off confidence, engagement and communication with a floor of 0.05,
\* leaves questionsAnswered, the average response time and eyeContact as
\* they are, and appends a record with score 0, duration 0 and the skip
\* sentinel as answer.
C27_SkipEffect ==
  [][SkipQuestion =>
       /\ interviewScore'.questionsSkipped = interviewScore.questionsSkipped + 1
       /\ interviewScore'.confidence = Max(50, interviewScore.confidence - 250)
       /\ interviewScore'.engagement = Max(50, interviewScore.engagement - 200)
       /\ interviewScore'.communication = Max(50, interviewScore.communication - 150)
       /\ interviewScore'.questionsAnswered = interviewScore.questionsAnswered
       /\ interviewScore'.responseTimeSum = interviewScore.responseTimeSum
       /\ interviewScore'.eyeContact = interviewScore.eyeContact
       /\ Len(Responses') = Len(Responses) + 1
       /\ LastResponse(analysisHistory').score = 0
       /\ LastResponse(analysisHistory').duration = 0
       /\ LastResponse(analysisHistory').answer = "[SKIPPED]"]_vars

\* C27 witness: a question was skipped after an answer had been merged and
\* a facial sample ingested, so that every metric had left its initial
\* value, and the skip record is the last of the list.
C27_Witness ==
  /\ interviewScore.questionsSkipped >= 1
  /\ interviewScore.questionsAnswered >= 1
  /\ Len(analysisHistory.facial) >= 1
  /\ Len(Responses) >= 2
  /\ LastResponse(analysisHistory).answer = "[SKIPPED]"

\* the facial samples the running averages are taken over
RecentFacial(history) == LastN(history.facial, RecentWindow)

\* value v is the mean of field f over the samples s
IsMean(v, s, f) == v * Len(s) = SumField(s, f)

\* v is the mean of field f over the samples s to three decimals: v is
\* in thousandths, and differs from the mean by at most half of one
IsRoundedMean(v, s, f) ==
  /\ 2 * (v * Len(s) - SumField(s, f)) <= Len(s)
  /\ 2 * (SumField(s, f) - v * Len(s)) <= Len(s)

\* the three metrics are as they were
MetricsKept ==
  /\ interviewScore'.confidence = interviewScore.confidence
  /\ interviewScore'.engagement = interviewScore.engagement
  /\ interviewScore'.eyeContact = interviewScore.eyeContact

\* C28 (as stated): right after a facial sample is ingested, confidence,
\* engagement and eyeContact are the means of their fields over the last
\* min(20, n) samples kept; while none has been ingested a step leaves
\* the three metrics as they were.
C28_RunningMeans ==
  [][/\ FacialAnalysis =>
          LET recent == RecentFacial(analysisHistory')
          IN  /\ Len(recent) = Min(RecentWindow, Len(analysisHistory'.facial))
              /\ IsMean(interviewScore'.confidence, recent, "confidence")
              /\ IsMean(interviewScore'.engagement, recent, "engagement")
              /\ IsMean(interviewScore'.eyeContact, recent, "eye_contact")
     /\ facialDelivered' = 0 => MetricsKept]_vars

\* C28 (amended): the same with the means rounded to three decimals.
C28_RunningRoundedMeans ==
  [][/\ FacialAnalysis =>
          LET recent == RecentFacial(analysisHistory')
          IN  /\ Len(recent) = Min(RecentWindow, Len(analysisHistory'.facial))
              /\ IsRoundedMean(interviewScore'.confidence, recent, "confidence")
              /\ IsRoundedMean(interviewScore'.engagement, recent, "engagement")
              /\ IsRoundedMean(interviewScore'.eyeContact, recent, "eye_contact")
     /\ facialDelivered' = 0 => MetricsKept]_vars

\* C28 witness: more samples than the window holds have been ingested,
\* the mean of the engagement readings in the window is no whole number
\* of thousandths, and engagement is that mean to three decimals.
C28_Witness ==
  /\ Len(analysisHistory.facial) > RecentWindow
  /\ SumField(RecentFacial(analysisHistory), "engagement") % RecentWindow # 0
  /\ IsRoundedMean(interviewScore.engagement, RecentFacial(analysisHistory), "engagement")

\* the records of skipped questions
SkippedResponses == {i \in 1..Len(Responses) : Responses[i].answer = "[SKIPPED]"}

\* C29: the answered and skipped counts add up to the number of records,
\* and the records with the skip sentinel are as many as the skipped count.
C29_CountsMatchRecords ==
  /\ interviewScore.questionsAnswered + interviewScore.questionsSkipped = Len(Responses)
  /\ Cardinality(SkippedResponses) = interviewScore.questionsSkipped

\* C29 witness: answers and skips have both been recorded, the last
\* record being an answer that came after a skip.
C29_Witness ==
  /\ interviewScore.questionsAnswered >= 2
  /\ interviewScore.questionsSkipped >= 2
  /\ LastResponse(analysisHistory).answer # "[SKIPPED]"

\* C30: the question number never exceeds MAX_QUESTIONS, however skips,
\* answers, delayed generateNewQuestion timers and late evaluation
\* results interleave.
C30_NumberWithinLimit == currentQuestionNumber <= MAX_QUESTIONS

====
